---- MODULE Spec2Model ----
(***************************************************************************)
(* Model of src/label_app.py: the comment-labeling form.  A DataFrame is a *)
(* record [kind, cols, rows]; every row is a function over the frame's     *)
(* columns plus "idx", the row's index label.  kind is "df" for a frame,   *)
(* "None" for Python's None and the exception's name when the operation    *)
(* that should have produced the frame raised.                             *)
(***************************************************************************)
EXTENDS Integers, Sequences, FiniteSets, TLC

VARIABLES comments_df, videos_df, file, selected_video, use_frame_filter,
          selected_frame, label_filter, radio, existing_labels,
          filtered_comments, all_labeled, status, fromScratch

vars == <<comments_df, videos_df, file, selected_video, use_frame_filter,
          selected_frame, label_filter, radio, existing_labels,
          filtered_comments, all_labeled, status, fromScratch>>

(* ------------------------------ bounds -------------------------------- *)
Texts == {"t1", "t2"}
VideoIds == {"vA", "vB"}
Frames == {1, 2}
\* the option the operator selects where the default is not kept: the last
Picked == {3}
MaxComments == 2
MaxVideos == 2
MaxFileRows == 4
MaxPersisted == 2

(* ---------------------------- constants ------------------------------- *)
LABEL_OPTIONS == <<1, 2, 3>>
\* pandas' missing value in a numeric column (None / NaN)
NaN == 0
\* selected_frame = None
NoFrame == 0
NumericCols == {"label", "label_existing"}
Digits == <<"1", "2", "3", "4", "5", "6", "7", "8", "9">>

(* ---------------------------- DataFrames ------------------------------ *)
Range(s) == {s[i] : i \in 1..Len(s)}

DF(cols, rows) == [kind |-> "df", cols |-> cols, rows |-> rows]
None == [kind |-> "None", cols |-> {}, rows |-> <<>>]
Raise(e) == [kind |-> e, cols |-> {}, rows |-> <<>>]

\* df[col] = value, for every row (the column is added when missing)
SetColumn(df, col, value) ==
    DF(df.cols \cup {col},
       [i \in 1..Len(df.rows) |->
           [c \in df.cols \cup {col, "idx"} |->
               IF c = col THEN value ELSE df.rows[i][c]]])

\* a frame's rows under a fresh RangeIndex 0..n-1
ResetIndex(rows) ==
    [i \in 1..Len(rows) |->
        [c \in DOMAIN rows[i] |-> IF c = "idx" THEN i - 1 ELSE rows[i][c]]]

isna(v) == v = NaN
notna(v) == v # NaN

(* ----------------------------- CSV files ------------------------------ *)
\* the output file: absent, or a header and lines of text fields
NoFile == [exists |-> FALSE, cols |-> {}, lines |-> <<>>]
\* a file opened for writing and never written: zero bytes
Truncated == [exists |-> TRUE, cols |-> {}, lines |-> <<>>]

FormatField(col, v) ==
    IF col \in NumericCols
    THEN (IF isna(v) THEN "" ELSE Digits[v])
    ELSE v

ParseField(col, s) ==
    IF col \in NumericCols
    THEN (IF s = "" THEN NaN ELSE CHOOSE n \in DOMAIN Digits : Digits[n] = s)
    ELSE s

\* df.to_csv(OUTPUT_FILE, index=False)
to_csv(df) ==
    [exists |-> TRUE, cols |-> df.cols,
     lines |-> [i \in 1..Len(df.rows) |->
                   [c \in df.cols |-> FormatField(c, df.rows[i][c])]]]

\* pd.read_csv(OUTPUT_FILE); a file without a header line raises
read_csv(f) ==
    IF f.cols = {} THEN Raise("EmptyDataError")
    ELSE DF(f.cols,
            [i \in 1..Len(f.lines) |->
                [c \in f.cols \cup {"idx"} |->
                    IF c = "idx" THEN i - 1 ELSE ParseField(c, f.lines[i][c])]])

load_existing_labels(f) ==
    IF f.exists
    THEN (LET df == read_csv(f) IN IF df.kind = "df" THEN df ELSE None)
    ELSE None

(* ------------------------------ filter -------------------------------- *)
\* a faulty variant: the frame is not looked at
filter_comments_any_frame(cdf, video_id, vdf, frame) ==
    DF(cdf.cols, SelectSeq(cdf.rows, LAMBDA r : r.videoId = video_id))


filter_comments(cdf, video_id, vdf, frame) ==
    LET filtered == DF(cdf.cols,
                       SelectSeq(cdf.rows, LAMBDA r : r.videoId = video_id))
    IN  IF frame # NoFrame /\ vdf.kind # "None"
        THEN LET matching_videos ==
                     {r.videoId : r \in {x \in Range(vdf.rows) : x.frame = frame}}
             IN  DF(filtered.cols,
                    SelectSeq(filtered.rows,
                              LAMBDA r : r.videoId \in matching_videos))
        ELSE filtered

(* ------------------------------- merge -------------------------------- *)
\* the rows of the right frame a left row joins with, in the right's order
Matches(l, right) ==
    SelectSeq(right, LAMBDA r : r.text_original = l.text_original
                                /\ r.videoId = l.videoId)

\* one left row joined: a row per match, or one row with a missing label
JoinRow(l, right, lcols, newcol) ==
    LET m == Matches(l, right)
        with(v) == [c \in lcols \cup {newcol, "idx"} |->
                       IF c = newcol THEN v ELSE l[c]]
    IN  IF Len(m) = 0 THEN <<with(NaN)>>
        ELSE [k \in 1..Len(m) |-> with(m[k].label)]

RECURSIVE LeftJoin(_, _, _, _)
LeftJoin(left, right, lcols, newcol) ==
    IF Len(left) = 0 THEN <<>>
    ELSE JoinRow(Head(left), right, lcols, newcol)
         \o LeftJoin(Tail(left), right, lcols, newcol)

merge_with_existing_labels(cdf, existing) ==
    IF existing.kind = "None" \/ Len(existing.rows) = 0
    THEN SetColumn(cdf, "label", NaN)
    ELSE IF "text_original" \in cdf.cols /\ "text_original" \in existing.cols
    THEN IF ~ ({"text_original", "videoId", "label"} \subseteq existing.cols)
              \/ "videoId" \notin cdf.cols
         THEN Raise("KeyError")
         ELSE LET newcol == IF "label" \in cdf.cols THEN "label_existing"
                            ELSE "label"
              IN  IF newcol \in cdf.cols THEN Raise("MergeError")
                  ELSE DF(cdf.cols \cup {newcol},
                          ResetIndex(LeftJoin(cdf.rows, existing.rows,
                                              cdf.cols, newcol)))
    ELSE SetColumn(cdf, "label", NaN)

(* --------------------------- one script run --------------------------- *)
get_video_ids(vdf) == {r.videoId : r \in Range(vdf.rows)}
get_frames(vdf) == {r.frame : r \in Range(vdf.rows)}

\* the "Label Status Filter" radio applied to the merged frame
ApplyLabelFilter(df, lf) ==
    CASE lf = "Unlabeled Only" ->
             DF(df.cols, SelectSeq(df.rows, LAMBDA r : isna(r.label)))
      [] lf = "Labeled Only" ->
             DF(df.cols, SelectSeq(df.rows, LAMBDA r : notna(r.label)))
      [] OTHER -> df

\* LABEL_OPTIONS.index(int(existing_label)) raises ValueError
NotAnOption(r) == notna(r.label) /\ r.label \notin Range(LABEL_OPTIONS)

default_index(r) ==
    IF notna(r.label)
    THEN (CHOOSE k \in DOMAIN LABEL_OPTIONS : LABEL_OPTIONS[k] = r.label) - 1
    ELSE 0

\* st.radio(..., index=default_index, key=f"label_{idx}"): the operator's
\* selection for that key, the default option when there is none
RadioValue(rad, r) ==
    IF r.idx \in DOMAIN rad THEN rad[r.idx]
    ELSE LABEL_OPTIONS[default_index(r) + 1]

\* a faulty variant: the radio's value is not written back to the frame
LabelingLoop_no_update(df, rad) == df

\* the labeling loop: rows before the first that raises are labeled
LabelingLoop(df, rad) ==
    LET bad == {i \in 1..Len(df.rows) : NotAnOption(df.rows[i])}
        stop == IF bad = {} THEN Len(df.rows) + 1
                ELSE CHOOSE i \in bad : \A j \in bad : i <= j
    IN  DF(df.cols,
           [i \in 1..Len(df.rows) |->
               IF i < stop
               THEN [c \in DOMAIN df.rows[i] |->
                        IF c = "label" THEN RadioValue(rad, df.rows[i])
                        ELSE df.rows[i][c]]
               ELSE df.rows[i]])

\* main() up to the save button: what the run loaded, what it shows
Run(f, cdf, vdf, video, useFrame, frame, lf, rad) ==
    LET existing == load_existing_labels(f)
        filtered == filter_comments(cdf, video,
                                    IF useFrame THEN vdf ELSE None, frame)
        merged == merge_with_existing_labels(filtered, existing)
        shown == ApplyLabelFilter(merged, lf)
    IN  IF merged.kind # "df"
        THEN [existing |-> existing, view |-> merged, status |-> merged.kind]
        ELSE IF Len(shown.rows) = 0
        THEN [existing |-> existing, view |-> shown, status |-> "empty"]
        ELSE [existing |-> existing, view |-> LabelingLoop(shown, rad),
              status |-> IF \E i \in 1..Len(shown.rows) :
                                NotAnOption(shown.rows[i])
                         THEN "ValueError" ELSE "form"]

\* widget state kept for the radios the run rendered
Rendered(r) ==
    IF r.status = "form" THEN {x.idx : x \in Range(r.view.rows)} ELSE {}

Restrict(rad, keys) == [k \in DOMAIN rad \cap keys |-> rad[k]]

(* ------------------------------- save --------------------------------- *)
\* pd.concat([a, b], ignore_index=True)
concat(a, b) ==
    LET cols == a.cols \cup b.cols
        fill(r) == [c \in cols \cup {"idx"} |->
                       IF c \in DOMAIN r THEN r[c] ELSE NaN]
    IN  DF(cols, ResetIndex([i \in 1..Len(a.rows) |-> fill(a.rows[i])]
                            \o [i \in 1..Len(b.rows) |-> fill(b.rows[i])]))

\* a faulty variant: the mask looks at the text alone
other_labels_by_text(existing, view) ==
    LET texts == {r.text_original : r \in Range(view.rows)}
    IN  DF(existing.cols,
           SelectSeq(existing.rows, LAMBDA r : r.text_original \notin texts))

\* existing_labels[mask]: the persisted rows the view does not replace
other_labels(existing, view) ==
    LET texts == {r.text_original : r \in Range(view.rows)}
        videos == {r.videoId : r \in Range(view.rows)}
    IN  DF(existing.cols,
           SelectSeq(existing.rows,
                     LAMBDA r : ~ (r.text_original \in texts
                                   /\ r.videoId \in videos)))

\* a faulty variant: only the view is saved
AllLabeled_view_only(existing, view) ==
    DF(view.cols, SelectSeq(view.rows, LAMBDA r : notna(r.label)))

\* a faulty variant: rows without a label are not removed
AllLabeled_keep_unlabeled(existing, view) ==
    IF existing.kind # "None"
    THEN IF ~ ({"text_original", "videoId"} \subseteq existing.cols)
         THEN Raise("KeyError")
         ELSE concat(other_labels(existing, view), view)
    ELSE view

\* the frame the save button hands to save_labeled_data
AllLabeled(existing, view) ==
    IF existing.kind # "None"
    THEN IF ~ ({"text_original", "videoId"} \subseteq existing.cols)
         THEN Raise("KeyError")
         ELSE LET all == concat(other_labels(existing, view), view)
              IN  DF(all.cols, SelectSeq(all.rows, LAMBDA r : notna(r.label)))
    ELSE DF(view.cols, SelectSeq(view.rows, LAMBDA r : notna(r.label)))

(* ------------------------------ inputs -------------------------------- *)
SeqsUpTo(S, lo, hi) == UNION {[1..k -> S] : k \in lo..hi}

\* a comments CSV as read_csv returns it: a RangeIndex, the two columns
CommentsTable(s) ==
    DF({"text_original", "videoId"},
       [i \in 1..Len(s) |->
           [text_original |-> s[i][1], videoId |-> s[i][2], idx |-> i - 1]])

\* a videos CSV as read_csv returns it
VideosTable(s) ==
    DF({"videoId", "frame"},
       [i \in 1..Len(s) |-> [videoId |-> s[i][1], frame |-> s[i][2]]])

\* the uploads of the sessions that are followed through: one comment, two
\* comments of one video, the same comment twice, the same text under two
\* videos, two videos in the other order
UploadedComments ==
    {CommentsTable(s) : s \in
        { << <<"t1", "vA">> >>,
          << <<"t1", "vA">>, <<"t2", "vA">> >>,
          << <<"t1", "vA">>, <<"t1", "vA">> >>,
          << <<"t1", "vB">>, <<"t1", "vA">> >>,
          << <<"t2", "vB">>, <<"t1", "vA">> >> }}

UploadedVideos == {VideosTable(<< <<"vA", 1>>, <<"vB", 2>> >>)}

Line(t, v, l) == [text_original |-> t, videoId |-> v, label |-> l]

\* what the output file holds before the first run: nothing, or a file
\* written by something else than a save
InitialFiles ==
    { NoFile,
      Truncated,
      [exists |-> TRUE, cols |-> {"text_original", "videoId", "label"},
       lines |-> <<Line("t2", "vB", "3"), Line("t1", "vA", "2")>>],
      [exists |-> TRUE, cols |-> {"text_original", "videoId", "label"},
       lines |-> <<Line("t2", "vB", ""), Line("t1", "vA", "2")>>],
      [exists |-> TRUE, cols |-> {"text_original", "videoId", "label"},
       lines |-> <<Line("t1", "vA", "5")>>],
      [exists |-> TRUE, cols |-> {"text_original", "label"},
       lines |-> <<[text_original |-> "t1", label |-> "2"]>>],
      [exists |-> TRUE, cols |-> {"videoId", "label"},
       lines |-> <<[videoId |-> "vA", label |-> "2"]>> ] }

(* ------------------------------ actions ------------------------------- *)
NoSelection == [k \in {} |-> 0]

\* the script has run to its end with these inputs
Show(f, video, useFrame, frame, lf, rad) ==
    LET r == Run(f, comments_df, videos_df, video, useFrame, frame, lf, rad)
    IN  /\ existing_labels' = r.existing
        /\ filtered_comments' = r.view
        /\ status' = r.status
        /\ radio' = Restrict(rad, Rendered(r))
        /\ all_labeled' = None

Interactive == status # "writing"
FormShown == status \in {"form", "saved", "save_failed"}

Init ==
    /\ comments_df \in UploadedComments
    /\ videos_df \in UploadedVideos
    /\ file \in InitialFiles
    /\ fromScratch = (file = NoFile)
    /\ selected_video \in get_video_ids(videos_df)
    /\ use_frame_filter = FALSE
    /\ selected_frame = NoFrame
    /\ label_filter = "All"
    /\ radio = NoSelection
    /\ all_labeled = None
    /\ LET r == Run(file, comments_df, videos_df, selected_video, FALSE,
                    NoFrame, "All", NoSelection)
       IN  /\ existing_labels = r.existing
           /\ filtered_comments = r.view
           /\ status = r.status

SelectVideo ==
    /\ Interactive
    /\ \E v \in get_video_ids(videos_df) \ {selected_video} :
          /\ selected_video' = v
          /\ Show(file, v, use_frame_filter, selected_frame, label_filter,
                  radio)
    /\ UNCHANGED <<comments_df, videos_df, file, use_frame_filter,
                   selected_frame, label_filter, fromScratch>>

\* the "Filter by Frame" checkbox and the frame selectbox under it
SelectFrame ==
    /\ Interactive
    /\ \E f \in (get_frames(videos_df) \cup {NoFrame}) \ {selected_frame} :
          /\ selected_frame' = f
          /\ use_frame_filter' = (f # NoFrame)
          /\ Show(file, selected_video, f # NoFrame, f, label_filter, radio)
    /\ UNCHANGED <<comments_df, videos_df, file, selected_video,
                   label_filter, fromScratch>>

SelectLabelFilter ==
    /\ Interactive
    /\ \E lf \in {"All", "Unlabeled Only", "Labeled Only"} \ {label_filter} :
          /\ label_filter' = lf
          /\ Show(file, selected_video, use_frame_filter, selected_frame, lf,
                  radio)
    /\ UNCHANGED <<comments_df, videos_df, file, selected_video,
                   use_frame_filter, selected_frame, fromScratch>>

\* the operator picks an option of one row's radio
PickLabel ==
    /\ FormShown
    /\ \E r \in Range(filtered_comments.rows), l \in Picked :
          /\ r.label # l
          /\ Show(file, selected_video, use_frame_filter, selected_frame,
                  label_filter,
                  [k \in DOMAIN radio \cup {r.idx} |->
                      IF k = r.idx THEN l ELSE radio[k]])
    /\ UNCHANGED <<comments_df, videos_df, file, selected_video,
                   use_frame_filter, selected_frame, label_filter,
                   fromScratch>>

\* "Save Labels" is pressed: the script runs again, and where it reaches the
\* button it prepares the frame to write
SaveClick ==
    /\ FormShown
    /\ LET r == Run(file, comments_df, videos_df, selected_video,
                    use_frame_filter, selected_frame, label_filter, radio)
           out == AllLabeled(r.existing, r.view)
       IN  /\ existing_labels' = r.existing
           /\ filtered_comments' = r.view
           /\ radio' = Restrict(radio, Rendered(r))
           /\ IF r.status # "form"
              THEN status' = r.status /\ all_labeled' = None
              ELSE IF out.kind # "df"
              THEN status' = out.kind /\ all_labeled' = None
              ELSE /\ Len(out.rows) <= MaxFileRows
                   /\ status' = "writing"
                   /\ all_labeled' = out
    /\ UNCHANGED <<comments_df, videos_df, file, selected_video,
                   use_frame_filter, selected_frame, label_filter,
                   fromScratch>>

\* save_labeled_data: to_csv succeeded, True is returned
WriteOk ==
    /\ status = "writing"
    /\ file' = to_csv(all_labeled)
    /\ status' = "saved"
    /\ UNCHANGED <<comments_df, videos_df, selected_video, use_frame_filter,
                   selected_frame, label_filter, radio, existing_labels,
                   filtered_comments, all_labeled, fromScratch>>

\* a faulty variant: the exception of to_csv is not caught
WriteFail_uncaught ==
    /\ status = "writing"
    /\ file' \in {file, Truncated}
    /\ status' = "OSError"
    /\ UNCHANGED <<comments_df, videos_df, selected_video, use_frame_filter,
                   selected_frame, label_filter, radio, existing_labels,
                   filtered_comments, all_labeled, fromScratch>>

\* save_labeled_data: to_csv raised, the error is shown, False is returned;
\* the file is as it was, or was opened for writing and left empty
WriteFail ==
    /\ status = "writing"
    /\ file' \in {file, Truncated}
    /\ status' = "save_failed"
    /\ UNCHANGED <<comments_df, videos_df, selected_video, use_frame_filter,
                   selected_frame, label_filter, radio, existing_labels,
                   filtered_comments, all_labeled, fromScratch>>

Next ==
    \/ SelectVideo
    \/ SelectFrame
    \/ SelectLabelFilter
    \/ PickLabel
    \/ SaveClick
    \/ WriteOk
    \/ WriteFail

Spec == Init /\ [][Next]_vars

(* ------------------- the functions called on their own ---------------- *)
Idle ==
    /\ file = NoFile
    /\ fromScratch = TRUE
    /\ use_frame_filter = FALSE
    /\ label_filter = "All"
    /\ radio = NoSelection
    /\ all_labeled = None
    /\ status = "args"

\* filter_comments on any comments table, video id, videos table (or None)
\* and frame (or None)
InitFilter ==
    /\ Idle
    /\ comments_df \in
          {CommentsTable(s) : s \in SeqsUpTo(Texts \X VideoIds, 0, MaxComments)}
    /\ videos_df \in
          {None} \cup
          {VideosTable(s) : s \in SeqsUpTo(VideoIds \X Frames, 0, MaxVideos)}
    /\ selected_video \in VideoIds
    /\ selected_frame \in Frames \cup {NoFrame}
    /\ existing_labels = None
    /\ filtered_comments = None

FilterCall ==
    /\ status = "args"
    /\ filtered_comments' =
          filter_comments(comments_df, selected_video, videos_df,
                          selected_frame)
    /\ status' = "filtered"
    /\ UNCHANGED <<comments_df, videos_df, file, selected_video,
                   use_frame_filter, selected_frame, label_filter, radio,
                   existing_labels, all_labeled, fromScratch>>

SpecFilter == InitFilter /\ [][FilterCall]_vars

\* a persisted frame: some of the three columns, any rows
PersistedFrames ==
    {DF(cols,
        [i \in 1..Len(s) |->
            [c \in cols \cup {"idx"} |->
                CASE c = "text_original" -> s[i][1]
                  [] c = "videoId" -> s[i][2]
                  [] c = "label" -> s[i][3]
                  [] OTHER -> i - 1]])
       : cols \in SUBSET {"text_original", "videoId", "label"} \ {{}},
         s \in SeqsUpTo(Texts \X VideoIds \X {NaN, 2, 3}, 0, MaxPersisted)}

\* merge_with_existing_labels on any filtered comments and any persisted
\* frame (or None)
InitMerge ==
    /\ Idle
    /\ comments_df \in
          {CommentsTable(s) : s \in SeqsUpTo(Texts \X {"vA"}, 0, MaxComments)}
    /\ videos_df = None
    /\ selected_video = "vA"
    /\ selected_frame = NoFrame
    /\ existing_labels \in {None} \cup PersistedFrames
    /\ filtered_comments = None

MergeCall ==
    /\ status = "args"
    /\ filtered_comments' =
          merge_with_existing_labels(comments_df, existing_labels)
    /\ status' = "merged"
    /\ UNCHANGED <<comments_df, videos_df, file, selected_video,
                   use_frame_filter, selected_frame, label_filter, radio,
                   existing_labels, all_labeled, fromScratch>>

SpecMerge == InitMerge /\ [][MergeCall]_vars

(* ------------------------------ claims -------------------------------- *)
Key(r) == <<r.text_original, r.videoId>>
Triple(r) == <<r.text_original, r.videoId, r.label>>
ViewKeys == {Key(r) : r \in Range(filtered_comments.rows)}
Count(rows, t) == Cardinality({i \in 1..Len(rows) : Triple(rows[i]) = t})
Triples == Texts \X VideoIds \X (0..9)

\* the persisted rows the view does not hold, as the claims describe them:
\* by the pair (text_original, videoId)
KeptRows ==
    IF {"text_original", "videoId"} \subseteq existing_labels.cols
    THEN SelectSeq(existing_labels.rows, LAMBDA r : Key(r) \notin ViewKeys)
    ELSE <<>>

\* the persisted dataset is one of the data model: every row carries a label
PersistedLabeled ==
    \A r \in Range(existing_labels.rows) :
        "label" \in DOMAIN r /\ notna(r.label)

\* the frame the last run filtered, and the frame it merged
Filtered ==
    filter_comments(comments_df, selected_video,
                    IF use_frame_filter THEN videos_df ELSE None,
                    selected_frame)
Merged == merge_with_existing_labels(Filtered, existing_labels)
InSession == status \notin {"args", "filtered", "merged"}

\* C1: after every save, in sessions that start without a persisted file,
\* the file holds at most one row per (text_original, videoId)
C1_OneRowPerKey ==
    (fromScratch /\ status = "saved") =>
        \A i, j \in 1..Len(file.lines) :
            Key(file.lines[i]) = Key(file.lines[j]) => i = j

\* C2: a save writes first every persisted row whose key is not in the view,
\* in order and with its label, and after them the rows of the view: the
\* persisted rows whose key is in the view are the only ones removed
C2_SaveKeepsOtherRows ==
    (status = "saved" /\ existing_labels.kind = "df" /\ PersistedLabeled) =>
        /\ Len(file.lines) = Len(KeptRows) + Len(filtered_comments.rows)
        /\ \A i \in 1..Len(KeptRows) :
              /\ file.lines[i].text_original = KeptRows[i].text_original
              /\ file.lines[i].videoId = KeptRows[i].videoId
              /\ file.lines[i].label = FormatField("label", KeptRows[i].label)
        /\ \A i \in 1..Len(filtered_comments.rows) :
              Key(file.lines[Len(KeptRows) + i]) = Key(filtered_comments.rows[i])

\* a save with a persisted row of another video and a persisted row of the
\* selected video that the label-status filter keeps out of the view
C2_Witness ==
    /\ status = "saved"
    /\ existing_labels.kind = "df"
    /\ PersistedLabeled
    /\ \E r \in Range(KeptRows) : r.videoId # selected_video
    /\ \E r \in Range(KeptRows) : r.videoId = selected_video

\* C3: the file reloaded after a save holds the rows of the view, each with
\* the label it had at the save, and the persisted rows whose key is not in
\* the view, each as often as it was there, and no other row
C3_SaveReloadRoundTrip ==
    (status = "saved" /\ PersistedLabeled) =>
        LET loaded == load_existing_labels(file)
        IN  /\ loaded.kind = "df"
            /\ \A t \in Triples :
                  Count(loaded.rows, t) =
                      Count(SelectSeq(filtered_comments.rows,
                                      LAMBDA r : notna(r.label)), t)
                      + Count(KeptRows, t)

\* a save of a view with a label the operator picked, over persisted rows
\* that stay
C3_Witness ==
    /\ status = "saved"
    /\ PersistedLabeled
    /\ Len(KeptRows) > 0
    /\ \E r \in Range(filtered_comments.rows) :
          r.idx \in DOMAIN radio /\ r.label = 3

\* C4: after any save no row of the file has an empty label
C4_NoNullLabelSaved ==
    status = "saved" =>
        /\ "label" \in file.cols
        /\ \A i \in 1..Len(file.lines) : file.lines[i].label # ""

\* a save over a persisted file with an unlabeled row outside the view
C4_Witness ==
    /\ status = "saved"
    /\ \E r \in Range(KeptRows) : isna(r.label)

\* C5: with a non-empty persisted dataset (here: one written by the saves of
\* sessions that started without a file) the merge returns one row per
\* filtered comment, in order, with the label of the persisted row of the
\* same key, or null when there is none
C5_MergeIsLeftLookup ==
    (fromScratch /\ InSession /\ Len(existing_labels.rows) > 0) =>
        /\ Merged.kind = "df"
        /\ Len(Merged.rows) = Len(Filtered.rows)
        /\ \A i \in 1..Len(Merged.rows) :
              /\ Key(Merged.rows[i]) = Key(Filtered.rows[i])
              /\ LET m == Matches(Filtered.rows[i], existing_labels.rows)
                 IN  IF Len(m) = 0 THEN isna(Merged.rows[i].label)
                     ELSE \A k \in 1..Len(m) :
                              Merged.rows[i].label = m[k].label

\* C6: merging the result of a merge again with the same persisted dataset
\* gives the same rows with the same labels
C6_MergeIdempotent ==
    (fromScratch /\ InSession /\ Merged.kind = "df") =>
        LET again == merge_with_existing_labels(Merged, existing_labels)
        IN  /\ again.kind = "df"
            /\ Len(again.rows) = Len(Merged.rows)
            /\ \A i \in 1..Len(Merged.rows) :
                  Triple(again.rows[i]) = Triple(Merged.rows[i])

\* C7: filter_comments returns, in order, the comments of the video when no
\* frame is given or the videos table has the row (video, frame), and no row
\* otherwise; so a frame only ever removes rows, and a video without
\* comments gives no row
C7_FilterCommentsResult ==
    (status = "filtered" /\ (selected_frame = NoFrame \/ videos_df.kind = "df"))
    =>  LET ofVideo == SelectSeq(comments_df.rows,
                                 LAMBDA r : r.videoId = selected_video)
            hasRow == \E i \in 1..Len(videos_df.rows) :
                          /\ videos_df.rows[i].videoId = selected_video
                          /\ videos_df.rows[i].frame = selected_frame
        IN  /\ filtered_comments.kind = "df"
            /\ filtered_comments.rows =
                  (IF selected_frame = NoFrame \/ hasRow THEN ofVideo ELSE <<>>)
            /\ Range(filtered_comments.rows) \subseteq
                  Range(filter_comments(comments_df, selected_video, None,
                                        NoFrame).rows)
            /\ (\A r \in Range(comments_df.rows) : r.videoId # selected_video)
                  => filtered_comments.rows = <<>>

\* a frame that the video does not have removes the video's comments
C7_Witness ==
    /\ status = "filtered"
    /\ videos_df.kind = "df"
    /\ selected_frame # NoFrame
    /\ \E r \in Range(comments_df.rows) : r.videoId = selected_video
    /\ \E r \in Range(videos_df.rows) : r.videoId = selected_video
    /\ filtered_comments.rows = <<>>

\* C8: a non-empty persisted frame without one of the columns
\* text_original, videoId, label makes the merge return the comments with a
\* null label on every row, and nothing is raised
C8_MergeFallsBack ==
    (status = "merged" /\ Len(existing_labels.rows) > 0
     /\ ~ ({"text_original", "videoId", "label"} \subseteq existing_labels.cols))
    =>  filtered_comments = SetColumn(comments_df, "label", NaN)

====
